---- MODULE Spec2Model ----
(***************************************************************************)
(* Model of alexbyard/alpaca_rest_api: the driver scripts/download_data.py, *)
(* the fetcher and cleaner of cmds/alpaca_requests.py and the aggregator    *)
(* of cmds/data_prep.py.  One run of the driver is one behaviour: the       *)
(* vendor API is the environment and answers every GET with a status, a     *)
(* body and an optional continuation token.                                 *)
(*                                                                          *)
(* Time is counted in minutes.  A raw bar carries t, a UTC instant; a row   *)
(* of a cleaned table carries datetime, the US/Eastern wall clock of that   *)
(* instant.  The modelled days are winter days (EST, UTC-5).                *)
(***************************************************************************)
EXTENDS Integers, Sequences, FiniteSets, TLC

VARIABLES
    argv,         \* sys.argv[1..]
    pc,           \* where the run is: main, fetch, clean, persist, or ended
    exit_code,    \* the exit status of the process, -1 while it runs
    err,          \* the exception that ended the run, NoError when none
    errAt,        \* the function that raised it
    errSym,       \* the symbol being cleaned when it was raised
    symbol_bars,  \* the accumulator of download_intraday_dict
    sb_keys,      \* its keys in insertion order
    next_token,   \* the continuation token of the next request
    reqLog,       \* the params of every GET issued, in order
    respLog,      \* the response to each
    df_dict,      \* the tables of download_intraday
    df_keys,      \* its keys in insertion order
    files,        \* the pickles written by the driver
    stack_df      \* the combined table of the driver, NoTable when none

vars == <<argv, pc, exit_code, err, errAt, errSym, symbol_bars, sb_keys, next_token,
          reqLog, respLog, df_dict, df_keys, files, stack_df>>

(***************************** bounds ***************************************)
\* the vendor serves at most MaxPages pages in one download
MaxPages == 2

(************************* program constants ********************************)
MaxLimit == 10000
SessionOpen == 570
SessionClose == 955
MinBars == 78
EasternOffset == 300
DayMinutes == 1440

None == "<None>"
NoError == "<none>"
NoTable == <<"<no table>">>
EmptyMap == [s \in {} |-> <<>>]

(***************************** the inputs ***********************************)
\* n bars of tag c, five minutes apart, the first at Eastern wall clock
\* `first' of day d; t is the UTC instant
Block(d, first, n, c) ==
    [i \in 1..n |-> [t |-> d * DayMinutes + first + EasternOffset + 5 * (i - 1),
                     c |-> c]]

Full(d) == Block(d, 570, 78, 1)
Short(d) == Block(d, 570, 77, 1)
Ext(d) == Block(d, 565, 80, 1)
Dup(d) == Block(d, 570, 77, 1) \o Block(d, 950, 1, 2)
AM(d) == Block(d, 570, 39, 1)
PM(d) == Block(d, 765, 39, 1)
Pre(d) == Block(d, 540, 3, 1)

\* the "bars" object of a page, as its items in the order of the JSON text
PageBodies ==
    { << <<"AAPL", Full(0)>>, <<"TSLA", Full(0)>> >>,
      << <<"AAPL", Ext(1)>> >>,
      << <<"AAPL", Dup(1)>> >>,
      << <<"AAPL", AM(2)>> >>,
      << <<"AAPL", PM(2)>> >>,
      << <<"TSLA", Short(1)>> >>,
      << <<"TSLA", Pre(0)>> >>,
      << <<"TSLA", <<>> >> >>,
      << >> }

\* the continuation token the vendor hands out with page i
TokenOf(i) == IF i = 1 THEN "tok1" ELSE IF i = 2 THEN "tok2" ELSE "tok3"

\* the command lines: sys.argv[1..], sys.argv[0] being the script
Args(symbols, limit, key) == <<symbols, "5Min", "2022-01-03", "2022-01-06", limit, key, "SECRET">>

ArgvSet ==
    { Args("AAPL,TSLA", "10000", "KEY"),
      Args("AAPL,TSLA", "10000", "KEY") \o <<"stack">>,
      Args("AAPL,TSLA", "10000", "KEY") \o <<"nostack">>,
      Args("AAPL,TSLA", "10000", "stack") \o <<"nostack">>,
      Args("AAPL,TSLA", "10001", "KEY") \o <<"stack">>,
      Args("AAPL,TSLA", "9999", "KEY"),
      Args("-h", "10000", "KEY"),
      Args("AAPL,TSLA", "10000", "KEY") \o <<"stack", "extra">>,
      <<"AAPL,TSLA", "5Min">> }

\* int(): the decimal strings of the command lines above
ParseInt(s) ==
    CASE s = "9999" -> 9999
      [] s = "10000" -> 10000
      [] s = "10001" -> 10001

(***************************** the fetcher **********************************)
\* the guard with the cap itself rejected
LimitGuardOffByOne(limit) == limit >= MaxLimit

\* limit > 10000 raises ValueError before any request
LimitGuard(limit) == limit > MaxLimit

\* `if next_token:' : None and the empty string are both false
Truthy(tok) == tok # None /\ tok # ""

\* the params of one page request
Params(av, tok) ==
    [url |-> "https://data.alpaca.markets/v2/stocks/bars",
     key |-> av[6], secret |-> av[7],
     symbols |-> av[1], timeframe |-> av[2], start |-> av[3], end |-> av[4],
     limit |-> ParseInt(av[5]),
     page_token |-> IF Truthy(tok) THEN tok ELSE None]

\* the page's list stored in place of the accumulated one
ExtendOverwrites(bars, symbol, barlist) ==
    [s \in DOMAIN bars \cup {symbol} |-> IF s = symbol THEN barlist ELSE bars[s]]

\* symbol_bars.setdefault(symbol, []).extend(barlist)
Extend(bars, symbol, barlist) ==
    [s \in DOMAIN bars \cup {symbol} |->
        IF s = symbol
        THEN (IF s \in DOMAIN bars THEN bars[s] ELSE <<>>) \o barlist
        ELSE bars[s]]

\* the for loop over data.get("bars", {}).items()
RECURSIVE MergeItems(_, _)
MergeItems(bars, items) ==
    IF items = <<>> THEN bars
    ELSE MergeItems(Extend(bars, items[1][1], items[1][2]), Tail(items))

\* the insertion order of the keys of symbol_bars
RECURSIVE MergeKeys(_, _)
MergeKeys(keys, items) ==
    IF items = <<>> THEN keys
    ELSE MergeKeys(IF \E i \in DOMAIN keys : keys[i] = items[1][1]
                   THEN keys ELSE Append(keys, items[1][1]),
                   Tail(items))

\* `from datetime import time' binds time to the class datetime.time, which
\* has neither time() nor sleep(): the default argument time.time() + 60 of
\* line 27 is evaluated on every 429 and raises AttributeError
TimeHasTime == FALSE

\* the body read only after a check of the status
ParsesOnlyOnSuccess(resp) == resp.json /\ resp.status = 200

\* response.json(): the body parses when it is JSON text, whatever the status
ParsesAsJson(resp) == resp.json

\* data.get("bars", {}) and data.get("next_page_token") of a parsed body
GetBars(data) == IF "bars" \in DOMAIN data THEN data.bars ELSE <<>>
GetToken(data) == IF "next_page_token" \in DOMAIN data THEN data.next_page_token ELSE None

\* what the vendor may answer to the n-th request
OkResponses(n) ==
    { [status |-> 200, json |-> TRUE, body |-> [bars |-> b, next_page_token |-> k]] :
        b \in PageBodies,
        k \in {None, ""} \cup (IF n < MaxPages THEN {TokenOf(n)} ELSE {}) }

ThrottleResponse == [status |-> 429, json |-> TRUE, body |-> [message |-> "too many requests"]]

ErrorResponses ==
    { [status |-> 500, json |-> TRUE, body |-> [message |-> "internal server error"]],
      [status |-> 502, json |-> FALSE, body |-> [text |-> "<html>Bad Gateway</html>"]] }

(***************************** the cleaner **********************************)
\* pd.to_datetime(utc=True).dt.tz_convert('US/Eastern'): the wall clock
ToEastern(t) == t - EasternOffset
\* the UTC instant of a row of a table
ToUtc(datetime) == datetime + EasternOffset
LocalDate(datetime) == datetime \div DayMinutes
LocalTime(datetime) == datetime % DayMinutes

\* pd.DataFrame(symbol_bars[symbol]) with the columns renamed and localized
Frame(raw) == [i \in DOMAIN raw |-> [datetime |-> ToEastern(raw[i].t), c |-> raw[i].c]]

\* the window closed five minutes late, at 16:00
InWindowLate(row) ==
    /\ SessionOpen <= LocalTime(row.datetime)
    /\ LocalTime(row.datetime) <= SessionClose + 5

\* .dt.time.between(time(9, 30), time(15, 55)): both ends included
InWindow(row) ==
    /\ SessionOpen <= LocalTime(row.datetime)
    /\ LocalTime(row.datetime) <= SessionClose

Windowed(df) == SelectSeq(df, InWindow)

\* np.unique(temp_df.index.date), a set here and walked in ascending order
DateRange(df) == { LocalDate(df[i].datetime) : i \in DOMAIN df }

\* temp_df[temp_df.index.date == date]
DayFrame(df, date) == SelectSeq(df, LAMBDA r : LocalDate(r.datetime) = date)

\* len(temp_day_df) >= 78
IsComplete(day_df) == Len(day_df) >= MinBars

\* the loop over temp_date_range followed by pd.concat: the complete days,
\* in ascending date order, each in the order of the rows of df
RECURSIVE ConcatComplete(_, _)
ConcatComplete(df, dates) ==
    IF dates = {} THEN <<>>
    ELSE LET d == CHOOSE x \in dates : \A y \in dates : x <= y
             day == DayFrame(df, d)
         IN (IF IsComplete(day) THEN day ELSE <<>>)
            \o ConcatComplete(df, dates \ {d})

\* com_day_count
CompleteDates(df) == { d \in DateRange(df) : IsComplete(DayFrame(df, d)) }

\* temp_df.index.duplicated(keep='first'): a row is a duplicate when an
\* earlier row has its timestamp
Duplicated(df, i) == \E j \in 1..(i - 1) : df[j].datetime = df[i].datetime

\* the duplicates left in
KeepDuplicates(df) == df

\* temp_df[~temp_df.index.duplicated(keep='first')]
DropDuplicates(df) ==
    LET marked == [i \in DOMAIN df |-> [row |-> df[i], dup |-> Duplicated(df, i)]]
        kept == SelectSeq(marked, LAMBDA m : ~m.dup)
    IN [i \in DOMAIN kept |-> kept[i].row]

\* no complete day taken for an empty table instead of an error
CleanErrorLenient(raw) == IF raw = <<>> THEN "KeyError: datetime" ELSE NoError

\* the exception one pass of the per-symbol loop raises, NoError when none:
\* an empty bar list makes a frame without columns, so temp_df['datetime']
\* raises KeyError; no complete day makes pd.concat([]) raise ValueError
CleanError(raw) ==
    IF raw = <<>> THEN "KeyError: datetime"
    ELSE IF CompleteDates(Windowed(Frame(raw))) = {} THEN "ValueError: No objects to concatenate"
    ELSE NoError

\* the table one pass of the per-symbol loop stores in df_dict
CleanTable(raw, symbol) ==
    LET df == Windowed(Frame(raw))
        out == DropDuplicates(ConcatComplete(df, DateRange(df)))
    IN [i \in DOMAIN out |-> [datetime |-> out[i].datetime, c |-> out[i].c,
                              symbol |-> symbol]]

(**************************** the aggregator ********************************)
\* pd.concat([df for _, df in df_dict.items()])
RECURSIVE StackData(_, _)
StackData(dfs, keys) ==
    IF keys = <<>> THEN <<>>
    ELSE dfs[keys[1]] \o StackData(dfs, Tail(keys))

\* the name of the pickle of a symbol
FileName(av, symbol) == <<symbol, av[3], av[4], av[2]>>

RECURSIVE FileNames(_, _)
FileNames(av, keys) ==
    IF keys = <<>> THEN <<>>
    ELSE <<FileName(av, keys[1])>> \o FileNames(av, Tail(keys))

\* `if sys.argv[6] == 'stack'' inside `if len(sys.argv) == 9'
StackRequested(av) == Len(av) + 1 = 9 /\ av[6] = "stack"

Init ==
    /\ argv \in ArgvSet
    /\ pc = "main"
    /\ exit_code = -1
    /\ err = NoError
    /\ errAt = None
    /\ errSym = None
    /\ symbol_bars = EmptyMap
    /\ sb_keys = <<>>
    /\ next_token = None
    /\ reqLog = <<>>
    /\ respLog = <<>>
    /\ df_dict = EmptyMap
    /\ df_keys = <<>>
    /\ files = <<>>
    /\ stack_df = NoTable

\* the driver up to the first page request: the argument checks, int(limit),
\* and the limit guard of download_intraday_dict
Main ==
    /\ pc = "main"
    /\ IF Len(argv) + 1 < 8 \/ Len(argv) + 1 > 9
       THEN /\ pc' = "usage" /\ exit_code' = 1 /\ UNCHANGED <<err, errAt>>
       ELSE IF argv[1] \in {"-h", "--help"}
       THEN /\ pc' = "help" /\ exit_code' = 0 /\ UNCHANGED <<err, errAt>>
       ELSE IF LimitGuard(ParseInt(argv[5]))
       THEN /\ pc' = "raised" /\ exit_code' = 1
            /\ err' = "ValueError: limit must be <= 10000"
            /\ errAt' = "download_intraday_dict"
       ELSE /\ pc' = "fetch" /\ UNCHANGED <<exit_code, err, errAt>>
    /\ UNCHANGED <<argv, errSym, symbol_bars, sb_keys, next_token, reqLog, respLog,
                   df_dict, df_keys, files, stack_df>>

\* one pass of the page loop answered with a success: safe_get returns the
\* response, the page is merged, the token read
FetchPage ==
    /\ pc = "fetch"
    /\ Len(respLog) < MaxPages
    /\ \E resp \in OkResponses(Len(respLog) + 1) :
        /\ reqLog' = Append(reqLog, Params(argv, next_token))
        /\ respLog' = Append(respLog, resp)
        /\ symbol_bars' = MergeItems(symbol_bars, GetBars(resp.body))
        /\ sb_keys' = MergeKeys(sb_keys, GetBars(resp.body))
        /\ next_token' = GetToken(resp.body)
        /\ pc' = IF Truthy(GetToken(resp.body)) THEN "fetch" ELSE "clean"
    /\ UNCHANGED <<argv, exit_code, err, errAt, errSym, df_dict, df_keys, files, stack_df>>

\* one pass of the page loop answered with 429: safe_get would sleep and
\* request again, and raises instead while computing the sleep
FetchThrottled ==
    /\ pc = "fetch"
    /\ Len(respLog) < MaxPages
    /\ reqLog' = Append(reqLog, Params(argv, next_token))
    /\ respLog' = Append(respLog, ThrottleResponse)
    /\ IF TimeHasTime
       THEN /\ pc' = "fetch" /\ UNCHANGED <<err, errAt, exit_code>>
       ELSE /\ pc' = "raised" /\ exit_code' = 1
            /\ err' = "AttributeError: datetime.time has no attribute time"
            /\ errAt' = "safe_get"
    /\ UNCHANGED <<argv, errSym, symbol_bars, sb_keys, next_token,
                   df_dict, df_keys, files, stack_df>>

\* one pass of the page loop answered with another error status: safe_get
\* returns the response as it is; the body is parsed and read like a page
FetchError ==
    /\ pc = "fetch"
    /\ Len(respLog) < MaxPages
    /\ \E resp \in ErrorResponses :
        /\ reqLog' = Append(reqLog, Params(argv, next_token))
        /\ respLog' = Append(respLog, resp)
        /\ IF ParsesAsJson(resp)
           THEN /\ symbol_bars' = MergeItems(symbol_bars, GetBars(resp.body))
                /\ sb_keys' = MergeKeys(sb_keys, GetBars(resp.body))
                /\ next_token' = GetToken(resp.body)
                /\ pc' = IF Truthy(GetToken(resp.body)) THEN "fetch" ELSE "clean"
                /\ UNCHANGED <<err, errAt, exit_code>>
           ELSE /\ pc' = "raised" /\ exit_code' = 1
                /\ err' = "JSONDecodeError"
                /\ errAt' = "download_intraday_dict"
                /\ UNCHANGED <<symbol_bars, sb_keys, next_token>>
    /\ UNCHANGED <<argv, errSym, df_dict, df_keys, files, stack_df>>

\* one pass of the per-symbol loop of download_intraday
CleanSymbol ==
    /\ pc = "clean"
    /\ Len(df_keys) < Len(sb_keys)
    /\ LET symbol == sb_keys[Len(df_keys) + 1]
           raw == symbol_bars[symbol]
       IN IF CleanError(raw) # NoError
          THEN /\ pc' = "raised" /\ exit_code' = 1
               /\ err' = CleanError(raw)
               /\ errAt' = "download_intraday"
               /\ errSym' = symbol
               /\ UNCHANGED <<df_dict, df_keys>>
          ELSE /\ df_dict' = [s \in DOMAIN df_dict \cup {symbol} |->
                                 IF s = symbol THEN CleanTable(raw, symbol)
                                 ELSE df_dict[s]]
               /\ df_keys' = Append(df_keys, symbol)
               /\ UNCHANGED <<pc, err, errAt, errSym, exit_code>>
    /\ UNCHANGED <<argv, symbol_bars, sb_keys, next_token, reqLog, respLog,
                   files, stack_df>>

\* the per-symbol loop is over: download_intraday returns df_dict
CleanReturn ==
    /\ pc = "clean"
    /\ Len(df_keys) = Len(sb_keys)
    /\ pc' = "persist"
    /\ UNCHANGED <<argv, exit_code, err, errAt, errSym, symbol_bars, sb_keys, next_token,
                   reqLog, respLog, df_dict, df_keys, files, stack_df>>

\* the rest of the driver: one pickle per symbol, then the stack branch
Persist ==
    /\ pc = "persist"
    /\ files' = FileNames(argv, df_keys)
    /\ IF StackRequested(argv)
       THEN IF df_keys = <<>>
            THEN /\ pc' = "raised" /\ exit_code' = 1
                 /\ err' = "ValueError: No objects to concatenate"
                 /\ errAt' = "stack_data"
                 /\ UNCHANGED stack_df
            ELSE /\ stack_df' = StackData(df_dict, df_keys)
                 /\ pc' = "exit" /\ exit_code' = 0 /\ UNCHANGED <<err, errAt>>
       ELSE /\ pc' = "exit" /\ exit_code' = 0 /\ UNCHANGED <<err, errAt, stack_df>>
    /\ UNCHANGED <<argv, errSym, symbol_bars, sb_keys, next_token, reqLog, respLog,
                   df_dict, df_keys>>

Next ==
    \/ Main
    \/ FetchPage
    \/ FetchThrottled
    \/ FetchError
    \/ CleanSymbol
    \/ CleanReturn
    \/ Persist

Spec == Init /\ [][Next]_vars

(***************************** the claims ***********************************)
\* download_intraday_dict has returned symbol_bars to download_intraday
FetchReturned ==
    \/ pc \in {"clean", "persist", "exit"}
    \/ pc = "raised" /\ errAt \in {"download_intraday", "stack_data"}

\* download_intraday has returned df_dict to the driver
DownloadReturned ==
    \/ pc \in {"persist", "exit"}
    \/ pc = "raised" /\ errAt = "stack_data"

\* every request so far was answered with a page
AllServed == \A i \in DOMAIN respLog : respLog[i].status = 200

\* the bars page `items' carries for symbol s
RECURSIVE BarsIn(_, _)
BarsIn(items, s) ==
    IF items = <<>> THEN <<>>
    ELSE (IF items[1][1] = s THEN items[1][2] ELSE <<>>) \o BarsIn(Tail(items), s)

\* the bars pages 1..k of the log carry for symbol s, page after page
RECURSIVE ServedBars(_, _)
ServedBars(k, s) ==
    IF k = 0 THEN <<>>
    ELSE ServedBars(k - 1, s) \o BarsIn(respLog[k].body.bars, s)

\* the symbols the pages of the log carry
ServedSymbols ==
    UNION { { respLog[i].body.bars[j][1] : j \in DOMAIN respLog[i].body.bars } :
            i \in DOMAIN respLog }

\* C1: a 429 never reaches the caller of safe_get as an error: after a 429
\* the fetcher is still in its page loop, about to issue the same request
C1_ThrottleRecovered ==
    \A i \in DOMAIN respLog :
        respLog[i].status = 429 =>
            /\ pc # "raised"
            /\ (i < Len(reqLog) => reqLog[i + 1] = reqLog[i])

\* C6: with a limit above 10000 the run ends in the ValueError of the guard
\* and no request was issued; with a limit of at most 10000 the guard never
\* raises
C6_LimitGuard ==
    (pc \notin {"main", "usage", "help"}) =>
        /\ ParseInt(argv[5]) > 10000 =>
              /\ pc = "raised"
              /\ err = "ValueError: limit must be <= 10000"
              /\ errAt = "download_intraday_dict"
              /\ reqLog = <<>>
        /\ ParseInt(argv[5]) <= 10000 =>
              err # "ValueError: limit must be <= 10000"

C6_Witness ==
    /\ pc = "raised"
    /\ ParseInt(argv[5]) = 10001
    /\ err = "ValueError: limit must be <= 10000"
    /\ reqLog = <<>>

\* C2: when the vendor has served k pages, the first k-1 with a token and
\* the last without, the fetcher has issued exactly k requests, the first
\* without a token and each later one with the token of the page before it,
\* and returns for every symbol the bars of all pages in page order
C2_Pagination ==
    (AllServed /\ respLog # <<>>) =>
        LET k == Len(respLog) IN
        /\ Len(reqLog) = k
        /\ reqLog[1].page_token = None
        /\ \A i \in 1..(k - 1) :
              /\ Truthy(respLog[i].body.next_page_token)
              /\ reqLog[i + 1].page_token = respLog[i].body.next_page_token
              /\ reqLog[i + 1].limit = reqLog[i].limit
              /\ reqLog[i + 1].symbols = reqLog[i].symbols
        /\ (pc = "fetch") = Truthy(respLog[k].body.next_page_token)
        /\ FetchReturned = ~Truthy(respLog[k].body.next_page_token)
        /\ DOMAIN symbol_bars = ServedSymbols
        /\ \A s \in ServedSymbols : symbol_bars[s] = ServedBars(k, s)

C2_Witness ==
    /\ FetchReturned
    /\ AllServed
    /\ Len(respLog) = 2
    /\ BarsIn(respLog[1].body.bars, "AAPL") # <<>>
    /\ BarsIn(respLog[2].body.bars, "AAPL") # <<>>
    /\ BarsIn(respLog[1].body.bars, "AAPL") # BarsIn(respLog[2].body.bars, "AAPL")
    /\ "TSLA" \in DOMAIN symbol_bars

\* the rows of table df on Eastern date d
RowsOn(df, d) == Cardinality({ i \in DOMAIN df : LocalDate(df[i].datetime) = d })

\* the bars of raw inside the session window on Eastern date d
WindowBarsOn(raw, d) ==
    Cardinality({ i \in DOMAIN raw :
                    /\ LocalDate(ToEastern(raw[i].t)) = d
                    /\ InWindow([datetime |-> ToEastern(raw[i].t)]) })

RawDates(raw) == { LocalDate(ToEastern(raw[i].t)) : i \in DOMAIN raw }

\* C3: in a returned table every Eastern date that appears has at least 78
\* rows, and every date of the input that does not appear had fewer than 78
\* bars inside the window
C3_SessionComplete ==
    DownloadReturned =>
        \A s \in DOMAIN df_dict :
            /\ \A d \in DateRange(df_dict[s]) : RowsOn(df_dict[s], d) >= 78
            /\ \A d \in RawDates(symbol_bars[s]) \ DateRange(df_dict[s]) :
                  WindowBarsOn(symbol_bars[s], d) < 78

\* C4 as stated: every row of a returned table has an Eastern time t with
\* 09:30 <= t < 15:55
C4_HalfOpenWindow ==
    DownloadReturned =>
        \A s \in DOMAIN df_dict : \A i \in DOMAIN df_dict[s] :
            /\ 570 <= LocalTime(df_dict[s][i].datetime)
            /\ LocalTime(df_dict[s][i].datetime) < 955

\* C4 as amended: every row of a returned table has an Eastern time t with
\* 09:30 <= t <= 15:55, both ends included
C4_ClosedWindow ==
    DownloadReturned =>
        \A s \in DOMAIN df_dict : \A i \in DOMAIN df_dict[s] :
            /\ 570 <= LocalTime(df_dict[s][i].datetime)
            /\ LocalTime(df_dict[s][i].datetime) <= 955

\* a returned table keeps a 09:30 and a 15:55 row of a day whose 09:25 and
\* 16:00 bars were dropped
C4_Witness ==
    /\ DownloadReturned
    /\ "AAPL" \in DOMAIN df_dict
    /\ \E i \in DOMAIN symbol_bars["AAPL"] :
          LocalTime(ToEastern(symbol_bars["AAPL"][i].t)) = 960
    /\ \E i \in DOMAIN symbol_bars["AAPL"] :
          LocalTime(ToEastern(symbol_bars["AAPL"][i].t)) = 565
    /\ \E i \in DOMAIN df_dict["AAPL"] : LocalTime(df_dict["AAPL"][i].datetime) = 955
    /\ \E i \in DOMAIN df_dict["AAPL"] : LocalTime(df_dict["AAPL"][i].datetime) = 570

Unique(df) ==
    \A i, j \in DOMAIN df : i # j => df[i].datetime # df[j].datetime

StrictlyIncreasing(df) ==
    \A i \in 1..(Len(df) - 1) : df[i].datetime < df[i + 1].datetime

\* ascending timestamp order, equal neighbours allowed
Ascending(raw) == \A i \in 1..(Len(raw) - 1) : raw[i].t <= raw[i + 1].t

\* C5 as stated: the index of every returned table has no repeated
\* timestamp and is strictly increasing
C5_AlwaysIncreasing ==
    DownloadReturned =>
        \A s \in DOMAIN df_dict :
            Unique(df_dict[s]) /\ StrictlyIncreasing(df_dict[s])

\* C5 as amended: the index of every returned table has no repeated
\* timestamp, and is strictly increasing when the raw bars of the symbol
\* were in ascending timestamp order
C5_IncreasingWhenAscending ==
    DownloadReturned =>
        \A s \in DOMAIN df_dict :
            /\ Unique(df_dict[s])
            /\ Ascending(symbol_bars[s]) => StrictlyIncreasing(df_dict[s])

\* a table made from ascending raw bars with a repeated timestamp: the
\* repeat is gone and the first of the two bars is the one kept
C5_Witness ==
    /\ DownloadReturned
    /\ "AAPL" \in DOMAIN df_dict
    /\ Ascending(symbol_bars["AAPL"])
    /\ \E i \in DOMAIN symbol_bars["AAPL"] : symbol_bars["AAPL"][i].c = 2
    /\ \A i \in DOMAIN df_dict["AAPL"] : df_dict["AAPL"][i].c = 1
    /\ Len(df_dict["AAPL"]) > 78

\* no Eastern date of raw has 78 bars inside the window
ZeroComplete(raw) == \A d \in RawDates(raw) : WindowBarsOn(raw, d) < 78

\* the raw bars a table gives back: its rows with their UTC instants
BarsOf(df) == [i \in DOMAIN df |-> [t |-> ToUtc(df[i].datetime), c |-> df[i].c]]

\* C7 as stated: a symbol with zero complete dates makes the cleaning fail
\* with the empty-input error of the concatenation, and no table is
\* returned for it
C7_FailsAtConcat ==
    \A s \in DOMAIN symbol_bars :
        ZeroComplete(symbol_bars[s]) =>
            /\ s \notin DOMAIN df_dict
            /\ ~DownloadReturned
            /\ (pc = "raised" /\ errAt = "download_intraday" /\ errSym = s) =>
                  err = "ValueError: No objects to concatenate"

\* C7 as amended: a symbol with zero complete dates never gets a table and
\* download_intraday never returns; cleaning it fails with the empty-input
\* error of the concatenation when it has bars, and with the missing-column
\* error of the datetime lookup when its bar list is empty.  No other
\* symbol makes the cleaning fail, and no stored table is empty
C7_FailsExplicitly ==
    /\ \A s \in DOMAIN symbol_bars :
          ZeroComplete(symbol_bars[s]) =>
              /\ s \notin DOMAIN df_dict
              /\ ~DownloadReturned
              /\ (pc = "raised" /\ errAt = "download_intraday" /\ errSym = s) =>
                    err = IF symbol_bars[s] = <<>>
                          THEN "KeyError: datetime"
                          ELSE "ValueError: No objects to concatenate"
    /\ (pc = "raised" /\ errAt = "download_intraday") =>
          /\ errSym \in DOMAIN symbol_bars
          /\ ZeroComplete(symbol_bars[errSym])
    /\ \A s \in DOMAIN df_dict : df_dict[s] # <<>>

\* the cleaning of a symbol with bars and no complete date has failed at
\* the concatenation, after another symbol was cleaned
C7_Witness ==
    /\ pc = "raised"
    /\ errAt = "download_intraday"
    /\ errSym = "TSLA"
    /\ symbol_bars["TSLA"] # <<>>
    /\ err = "ValueError: No objects to concatenate"
    /\ "AAPL" \in DOMAIN df_dict

\* a request was answered with an error status other than 429
UpstreamErrorAt(i) == respLog[i].status \notin {200, 429}

\* C8 as stated: once a request is answered with an error status other
\* than 429, download_intraday_dict fails while reading the payload and
\* returns nothing
C8_ErrorsFatal ==
    \A i \in DOMAIN respLog :
        UpstreamErrorAt(i) =>
            /\ pc = "raised"
            /\ errAt = "download_intraday_dict"
            /\ ~FetchReturned

\* C8 as amended: an error status other than 429 is never retried and ends
\* the paging.  When its body is not JSON, download_intraday_dict fails
\* with the parse error and returns nothing; when its body is a JSON object
\* without bars and token, nothing fails: download_intraday_dict returns
\* the bars of the pages before it, or an empty mapping when it was the
\* first response
C8_ErrorsEndPaging ==
    \A i \in DOMAIN respLog :
        UpstreamErrorAt(i) =>
            /\ i = Len(respLog)
            /\ Len(reqLog) = i
            /\ pc # "fetch"
            /\ ~respLog[i].json =>
                  /\ pc = "raised"
                  /\ err = "JSONDecodeError"
                  /\ errAt = "download_intraday_dict"
            /\ respLog[i].json =>
                  /\ FetchReturned
                  /\ errAt # "download_intraday_dict"
                  /\ \A j \in 1..(i - 1) : respLog[j].status = 200
                  /\ \A s \in DOMAIN symbol_bars : symbol_bars[s] = ServedBars(i - 1, s)
                  /\ \A j \in 1..(i - 1) : \A n \in DOMAIN respLog[j].body.bars :
                        respLog[j].body.bars[n][1] \in DOMAIN symbol_bars

\* a 500 with a JSON body after a page that promised more: the fetcher has
\* returned the bars of that page alone
C8_Witness ==
    /\ Len(respLog) = 2
    /\ respLog[1].status = 200
    /\ Truthy(respLog[1].body.next_page_token)
    /\ respLog[2].status = 500
    /\ FetchReturned
    /\ "AAPL" \in DOMAIN symbol_bars
    /\ symbol_bars["AAPL"] # <<>>

\* C9: cleaning the bars of a returned table again succeeds and gives the
\* same rows
C9_Idempotent ==
    DownloadReturned =>
        \A s \in DOMAIN df_dict :
            /\ CleanError(BarsOf(df_dict[s])) = NoError
            /\ CleanTable(BarsOf(df_dict[s]), s) = df_dict[s]

\* C10: a finished run has made the combined table exactly when its eighth
\* argument is the literal stack
C10_StackFlag ==
    pc = "exit" =>
        ((stack_df # NoTable) <=> (Len(argv) = 8 /\ argv[8] = "stack"))
====
